---- MODULE Spec2Model ----
(***************************************************************************)
(* A model of the clipp crate: the resolver (providers::provide), the      *)
(* binding cache (the OnceLock CLIP of lib.rs) under concurrent first      *)
(* calls of copy/paste, and the copy/paste pair of every backend variant.  *)
(***************************************************************************)
EXTENDS Integers, Sequences, FiniteSets, TLC

VARIABLES
    env,          \* the host: target platform, /proc/version, environment, path
    res,          \* SpecResolve: what the last call of provide() returned
    cell,         \* CLIP: "unset" or the Board stored in the OnceLock
    once,         \* state of the Once inside CLIP
    pc,           \* per thread: where it is inside copy()/paste()
    op,           \* per thread: the public function it called
    bind,         \* per thread: the Board get_or_init handed back
    spawns,       \* per thread: child processes its current call has spawned
    resolutions,  \* how many times provide() has been started
    failed,       \* how many of those ended in a panic
    commits,      \* how many times a Board was written into CLIP
    err,          \* per thread: the message of the panic that ended it
    variant,      \* SpecBackend: the Clipboard implementation under test
    clip,         \* SpecBackend: the clipboard contents the external tools own
    copied,       \* SpecBackend: the last copy(): text, invocation, outcome
    pasted        \* SpecBackend: the last paste(): raw tool output, outcome

vars == <<env, res, cell, once, pc, op, bind, spawns, resolutions, failed,
          commits, err, variant, clip, copied, pasted>>

cacheVars == <<cell, once, pc, op, bind, spawns, resolutions, failed, commits, err>>
backendVars == <<variant, clip, copied, pasted>>

----------------------------------------------------------------------------
(* Bounds *)

NumThreads == 2
MaxLen == 2
MaxRaw == 3

----------------------------------------------------------------------------
(* The host environment read by the Environment Probe *)

Platforms == {"linux", "windows", "macos"}

Tools == {"wl-copy", "xsel", "xclip", "klipper", "qdbus"}

Envs ==
    [platform : Platforms,
     wsl : BOOLEAN,
     DISPLAY : BOOLEAN,
     WAYLAND_DISPLAY : BOOLEAN,
     path : SUBSET Tools]

EnvVars == {"DISPLAY", "WAYLAND_DISPLAY"}

\* has(c): `which c` exits with success. The host is taken to have `which`.
has(e, c) == c \in e.path

\* wsl(): /proc/version is readable and mentions "microsoft".
wsl(e) == e.wsl

Backends == {"PbCopy", "XClip", "XSel", "Wayland", "Klipper", "Windows", "Wsl"}

\* get::<T>(): the Board (T::copy, T::paste), named by T.
get(T) == [fatal |-> FALSE, board |-> T, msg |-> "", probes |-> <<>>]

Panic(m) == [fatal |-> TRUE, board |-> "none", msg |-> m, probes |-> <<>>]

\* r, reached after the `which` probes ps were spawned.
After(ps, r) == [r EXCEPT !.probes = ps]

\* The probe chain of provide() below the DISPLAY assertion.
Chain(e) ==
    LET p0 == IF e.WAYLAND_DISPLAY THEN <<"wl-copy">> ELSE <<>>
        p1 == Append(p0, "xsel")
        p2 == Append(p1, "xclip")
        p3 == Append(p2, "klipper")
        p4 == IF has(e, "klipper") THEN Append(p3, "qdbus") ELSE p3
    IN  IF e.WAYLAND_DISPLAY /\ has(e, "wl-copy") THEN After(p0, get("Wayland"))
        ELSE IF has(e, "xsel") THEN After(p1, get("XSel"))
        ELSE IF has(e, "xclip") THEN After(p2, get("XClip"))
        ELSE IF has(e, "klipper") /\ has(e, "qdbus") THEN After(p4, get("Klipper"))
        ELSE After(p4, Panic("no clipboard available"))

\* provide() with the DISPLAY assertion placed below the probe chain.
provide_ProbesFirst(e) ==
    IF e.platform = "windows" THEN get("Windows")
    ELSE IF e.platform = "macos" THEN get("PbCopy")
    ELSE IF wsl(e) THEN get("Wsl")
    ELSE IF ~e.DISPLAY THEN After(Chain(e).probes, Panic("no clipboard available"))
    ELSE Chain(e)

provide(e) ==
    IF e.platform = "windows" THEN get("Windows")
    ELSE IF e.platform = "macos" THEN get("PbCopy")
    ELSE IF wsl(e) THEN get("Wsl")
    ELSE IF ~e.DISPLAY THEN Panic("no clipboard available")
    ELSE Chain(e)

NoRes == [fatal |-> FALSE, board |-> "none", msg |-> "", probes |-> <<>>]

----------------------------------------------------------------------------
(* Text, the Process Invoker and the Clipboard implementations *)

\* Bytes of a text: an ordinary byte, carriage return, line feed.
Chars == {"a", "CR", "LF"}

Texts == UNION {[1..n -> Chars] : n \in 0..MaxLen}

\* A child process: it exits with success, exits with failure, or cannot be
\* spawned at all.
Exits == {"ok", "fail", "nolaunch"}

\* str::ends_with(char)
EndsWith(s, c) == Len(s) > 0 /\ s[Len(s)] = c

\* String::truncate(new_len): no effect when new_len is not below the length.
Truncate(s, n) == IF n >= Len(s) THEN s ELSE SubSeq(s, 1, n)

\* usize arithmetic wraps modulo this in a build without overflow checks
\* (a stand-in for 2^64, above every length of the model).
UsizeModulus == 2^30

\* Command::put: spawn with a piped stdin, write s, wait. Only a failed spawn
\* (or write, or wait) panics; the exit status is not looked at.
put(argv, s, exit) ==
    [mode |-> "put", argv |-> argv, stdin |-> s, fatal |-> exit = "nolaunch"]

\* Command::status().unwrap().success() under assert!.
status(argv, exit) ==
    [mode |-> "status", argv |-> argv, stdin |-> <<>>, fatal |-> exit # "ok"]

\* A Command that is built and dropped: nothing is spawned.
unspawned(argv) ==
    [mode |-> "none", argv |-> argv, stdin |-> <<>>, fatal |-> FALSE]

\* A call of the native clipboard API under expect().
api(s, exit) ==
    [mode |-> "api", argv |-> <<>>, stdin |-> s, fatal |-> exit # "ok"]

\* Command::eat: spawn with a piped stdout and read it to the end.
eat(out) == [fatal |-> ~out.launched, ret |-> out.raw, underflow |-> FALSE]

Abort == [fatal |-> TRUE, ret |-> <<>>, underflow |-> FALSE]

PbCopyCopy(text, exit) == put(<<"pbcopy", "w">>, text, exit)
PbCopyPaste(out) == eat(out)

XClipCopy(text, exit) == put(<<"xclip", "-selection", "c">>, text, exit)
XClipPaste(out) == eat(out)

XSelCopy(text, exit) == put(<<"xsel", "-b", "-i">>, text, exit)
XSelPaste(out) == eat(out)

\* Wayland::copy without the match on "": the empty text is piped too.
WaylandCopy_PipesEmpty(text, exit) == put(<<"wl-copy", "-p">>, text, exit)

WaylandCopy(text, exit) ==
    IF text = <<>>
      THEN status(<<"wl-copy", "-p", "--clear">>, exit)
      ELSE put(<<"wl-copy", "-p">>, text, exit)
WaylandPaste(out) == eat(out)

KlipperCopy(text, exit) ==
    unspawned(<<"qdbus", "org.kde.klipper", "/klipper", "setClipboardContents">>)

\* Klipper::paste without its assert!: the last byte goes, whatever it is.
KlipperPaste_NoAssert(out) ==
    LET s == eat(out)
    IN  IF s.fatal THEN Abort
        ELSE [s EXCEPT !.ret = Truncate(s.ret, Len(s.ret) - 1)]

KlipperPaste(out) ==
    LET s == eat(out)
    IN  IF s.fatal THEN Abort
        ELSE IF ~EndsWith(s.ret, "LF") THEN Abort
        ELSE [s EXCEPT !.ret = Truncate(s.ret, Len(s.ret) - 1)]

WindowsCopy(text, exit) == api(text, exit)
WindowsPaste(out) == eat(out)

WslCopy(text, exit) == put(<<"clip.exe">>, text, exit)

\* s.len() - 2 on usize: below two bytes it panics where overflow checks are
\* compiled in and wraps where they are not.
WslPaste(out, checks) ==
    LET s == eat(out)
        under == Len(s.ret) < 2
    IN  IF s.fatal THEN Abort
        ELSE IF under /\ checks THEN [Abort EXCEPT !.underflow = TRUE]
        ELSE [s EXCEPT !.ret = Truncate(s.ret, (Len(s.ret) - 2) % UsizeModulus),
                       !.underflow = under]

\* T::copy and T::paste of the implementation named T.
CopyOf(T, text, exit) ==
    CASE T = "PbCopy" -> PbCopyCopy(text, exit)
      [] T = "XClip" -> XClipCopy(text, exit)
      [] T = "XSel" -> XSelCopy(text, exit)
      [] T = "Wayland" -> WaylandCopy(text, exit)
      [] T = "Klipper" -> KlipperCopy(text, exit)
      [] T = "Windows" -> WindowsCopy(text, exit)
      [] T = "Wsl" -> WslCopy(text, exit)

PasteOf(T, out, checks) ==
    CASE T = "PbCopy" -> PbCopyPaste(out)
      [] T = "XClip" -> XClipPaste(out)
      [] T = "XSel" -> XSelPaste(out)
      [] T = "Wayland" -> WaylandPaste(out)
      [] T = "Klipper" -> KlipperPaste(out)
      [] T = "Windows" -> WindowsPaste(out)
      [] T = "Wsl" -> WslPaste(out, checks)

\* The clipboard after the invocation inv of a copy tool that exited with exit:
\* a tool that ran to success stores its stdin, or clears under --clear.
Stored(inv, exit, old) ==
    IF inv.mode = "none" \/ exit # "ok" THEN old
    ELSE IF inv.mode = "status" THEN <<>>
    ELSE inv.stdin

\* What the paste tool prints while the clipboard holds c: the contents, which
\* qdbus ends with a newline and powershell.exe with carriage return, line feed.
Printed(T, c) ==
    IF T = "Klipper" THEN c \o <<"LF">>
    ELSE IF T = "Wsl" THEN c \o <<"CR", "LF">>
    ELSE c

NoCopy ==
    [done |-> FALSE, text |-> <<>>, exit |-> "ok",
     inv |-> unspawned(<<>>)]

NoPaste ==
    [done |-> FALSE, launched |-> FALSE, raw |-> <<>>, out |-> Abort]

----------------------------------------------------------------------------
(* The binding cache and the threads calling copy()/paste() *)

Threads == 1..NumThreads

Ops == {"copy", "paste"}

Unset == "unset"

\* Child processes one call of the Board's copy or paste launches.
Launches(b, o) ==
    IF b = "Windows" THEN 0
    ELSE IF b = "Klipper" /\ o = "copy" THEN 0
    ELSE 1

CacheInit ==
    /\ cell = Unset
    /\ once = "incomplete"
    /\ pc = [t \in Threads |-> "idle"]
    /\ op = [t \in Threads |-> "copy"]
    /\ bind = [t \in Threads |-> "none"]
    /\ spawns = [t \in Threads |-> 0]
    /\ resolutions = 0
    /\ failed = 0
    /\ commits = 0
    /\ err = [t \in Threads |-> ""]

BackendIdle ==
    /\ variant = "none"
    /\ clip = <<>>
    /\ copied = NoCopy
    /\ pasted = NoPaste

\* copy()/paste() enter CLIP.get_or_init: the fast path reads the cell.
Call(t, o) ==
    /\ pc[t] = "idle"
    /\ op' = [op EXCEPT ![t] = o]
    /\ spawns' = [spawns EXCEPT ![t] = 0]
    /\ IF cell # Unset
         THEN /\ pc' = [pc EXCEPT ![t] = "dispatch"]
              /\ bind' = [bind EXCEPT ![t] = cell]
         ELSE /\ pc' = [pc EXCEPT ![t] = "slow"]
              /\ bind' = bind
    /\ UNCHANGED <<env, res, cell, once, resolutions, failed, commits, err>>
    /\ UNCHANGED backendVars

\* A Once that does not exclude a second initialiser while one is running.
MayInit_NoExclusion == once # "complete"

\* A Once that admits an initialiser again after it completed.
MayInit_Reinit == once # "running"

\* The Once admits one initialiser at a time; a poisoned Once admits the next.
MayInit == once \in {"incomplete", "poisoned"}

\* The slow path wins the Once and starts providers::provide.
BeginInit(t) ==
    /\ pc[t] = "slow"
    /\ MayInit
    /\ once' = "running"
    /\ pc' = [pc EXCEPT ![t] = "init"]
    /\ resolutions' = resolutions + 1
    /\ UNCHANGED <<env, res, cell, op, bind, spawns, failed, commits, err>>
    /\ UNCHANGED backendVars

\* The slow path finds the Once complete: another thread initialised CLIP.
SkipInit(t) ==
    /\ pc[t] = "slow"
    /\ once = "complete"
    /\ pc' = [pc EXCEPT ![t] = "dispatch"]
    /\ bind' = [bind EXCEPT ![t] = cell]
    /\ UNCHANGED <<env, res, cell, once, op, spawns, resolutions, failed, commits, err>>
    /\ UNCHANGED backendVars

\* provide() returns a Board, which is stored, or panics, which poisons the
\* Once and leaves the cell as it was.
FinishInit(t) ==
    /\ pc[t] = "init"
    /\ LET r == provide(env)
       IN  /\ spawns' = [spawns EXCEPT ![t] = Len(r.probes)]
           /\ IF r.fatal
                THEN /\ once' = "poisoned"
                     /\ pc' = [pc EXCEPT ![t] = "panicked"]
                     /\ failed' = failed + 1
                     /\ err' = [err EXCEPT ![t] = r.msg]
                     /\ UNCHANGED <<cell, bind, commits>>
                ELSE /\ once' = "complete"
                     /\ cell' = r.board
                     /\ commits' = commits + 1
                     /\ bind' = [bind EXCEPT ![t] = r.board]
                     /\ pc' = [pc EXCEPT ![t] = "dispatch"]
                     /\ failed' = failed
                     /\ err' = err
    /\ UNCHANGED <<env, res, op, resolutions>>
    /\ UNCHANGED backendVars

\* .0(..) / .1(): the call through the Board; the backend returns or panics.
Dispatch(t, ok) ==
    /\ pc[t] = "dispatch"
    /\ spawns' = [spawns EXCEPT ![t] = @ + Launches(bind[t], op[t])]
    /\ pc' = [pc EXCEPT ![t] = IF ok THEN "idle" ELSE "panicked"]
    /\ bind' = [bind EXCEPT ![t] = "none"]
    /\ err' = [err EXCEPT ![t] = IF ok THEN "" ELSE "backend"]
    /\ UNCHANGED <<env, res, cell, once, op, resolutions, failed, commits>>
    /\ UNCHANGED backendVars

\* The process environment changes between calls (std::env is process-wide).
SetEnvVar(v, b) ==
    /\ env[v] # b
    /\ env' = [env EXCEPT ![v] = b]
    /\ UNCHANGED <<res>>
    /\ UNCHANGED cacheVars
    /\ UNCHANGED backendVars

Init ==
    /\ env \in Envs
    /\ res = NoRes
    /\ CacheInit
    /\ BackendIdle

Next ==
    \/ \E t \in Threads, o \in Ops : Call(t, o)
    \/ \E t \in Threads : BeginInit(t)
    \/ \E t \in Threads : SkipInit(t)
    \/ \E t \in Threads : FinishInit(t)
    \/ \E t \in Threads, ok \in BOOLEAN : Dispatch(t, ok)
    \/ \E v \in EnvVars, b \in BOOLEAN : SetEnvVar(v, b)

Spec == Init /\ [][Next]_vars

----------------------------------------------------------------------------
(* The resolver alone, on every host *)

Resolve ==
    /\ res' = provide(env)
    /\ UNCHANGED <<env>>
    /\ UNCHANGED cacheVars
    /\ UNCHANGED backendVars

ResolveNext == Resolve

SpecResolve == Init /\ [][ResolveNext]_vars

----------------------------------------------------------------------------
(* One backend variant at a time, against the clipboard its tools own *)

DefaultEnv ==
    [platform |-> "linux", wsl |-> FALSE, DISPLAY |-> TRUE,
     WAYLAND_DISPLAY |-> FALSE, path |-> Tools]

BackendInit ==
    /\ env = DefaultEnv
    /\ res = NoRes
    /\ CacheInit
    /\ variant \in Backends
    /\ clip \in Texts
    /\ copied = NoCopy
    /\ pasted = NoPaste

\* T::copy(text); the tool it launches, if any, exits with exit.
Copy(text, exit) ==
    /\ LET inv == CopyOf(variant, text, exit)
       IN  /\ copied' = [done |-> TRUE, text |-> text, exit |-> exit, inv |-> inv]
           /\ clip' = Stored(inv, exit, clip)
    /\ pasted' = NoPaste
    /\ UNCHANGED <<env, res, variant>>
    /\ UNCHANGED cacheVars

\* T::paste(); the tool, when it can be launched, prints the clipboard as
\* documented.
Paste(launched, checks) ==
    /\ LET raw == IF launched THEN Printed(variant, clip) ELSE <<>>
       IN  pasted' = [done |-> TRUE, launched |-> launched, raw |-> raw,
                      out |-> PasteOf(variant,
                                      [launched |-> launched, raw |-> raw],
                                      checks)]
    /\ UNCHANGED <<env, res, variant, clip, copied>>
    /\ UNCHANGED cacheVars

BackendNext ==
    \/ \E text \in Texts, exit \in Exits : Copy(text, exit)
    \/ \E launched \in BOOLEAN, checks \in BOOLEAN : Paste(launched, checks)

SpecBackend == BackendInit /\ [][BackendNext]_vars

----------------------------------------------------------------------------
(* T::paste() on whatever its tool may print *)

RawTexts == UNION {[1..n -> Chars] : n \in 0..MaxRaw}

PasteInit ==
    /\ env = DefaultEnv
    /\ res = NoRes
    /\ CacheInit
    /\ variant \in Backends
    /\ clip = <<>>
    /\ copied = NoCopy
    /\ pasted = NoPaste

\* T::paste() where the tool prints raw, in a build with or without overflow
\* checks.
PasteRaw(raw, checks) ==
    /\ pasted' = [done |-> TRUE, launched |-> TRUE, raw |-> raw,
                  out |-> PasteOf(variant, [launched |-> TRUE, raw |-> raw],
                                  checks)]
    /\ UNCHANGED <<env, res, variant, clip, copied>>
    /\ UNCHANGED cacheVars

PasteNext == \E raw \in RawTexts, checks \in BOOLEAN : PasteRaw(raw, checks)

SpecPaste == PasteInit /\ [][PasteNext]_vars

----------------------------------------------------------------------------
(* Properties of the binding cache, checked under Spec *)

Dispatching == {t \in Threads : pc[t] = "dispatch"}
Initialising == {t \in Threads : pc[t] = "init"}

C1_Bound ==
    /\ commits <= 1
    /\ (cell # Unset) <=> (commits = 1)
    /\ \A t \in Dispatching : bind[t] \in Backends /\ bind[t] = cell

\* C1: however the first calls of copy/paste interleave, at most one Board is
\* ever written into CLIP; every caller that goes on to dispatch holds exactly
\* the Board in CLIP, never an unset one; and once CLIP is set its value stays.
C1_WriteOnce == []C1_Bound /\ [][cell # Unset => cell' = cell]_vars

\* A caller that lost the race (it saw CLIP unset and is on the slow path)
\* while the winner has committed and is dispatching.
C1_Witness ==
    \E t, u \in Threads :
        /\ t # u
        /\ pc[t] = "dispatch" /\ bind[t] = cell
        /\ pc[u] = "slow" /\ once = "complete"

NoDisplayHost(e) ==
    /\ e.platform = "linux"
    /\ ~e.wsl
    /\ ~e.DISPLAY
    /\ ~e.WAYLAND_DISPLAY

\* C7: on a host with no native API, no WSL and no display variable, the call
\* that runs the resolver ends in the panic "no clipboard available" with no
\* child process spawned, and nothing is written into CLIP.
C7_FailFast ==
    [][\A t \in Threads :
          (pc[t] = "init" /\ pc'[t] # "init" /\ NoDisplayHost(env)) =>
              /\ pc'[t] = "panicked"
              /\ err'[t] = "no clipboard available"
              /\ spawns'[t] = 0
              /\ cell' = Unset
              /\ commits' = commits]_vars

C7_Witness ==
    \E t \in Threads :
        /\ NoDisplayHost(env)
        /\ pc[t] = "panicked"
        /\ err[t] = "no clipboard available"
        /\ spawns[t] = 0
        /\ failed >= 1
        /\ cell = Unset

----------------------------------------------------------------------------
(* Properties of the resolver, checked under SpecResolve *)

Resolved == res # NoRes

Native(e) == e.platform \in {"windows", "macos"}

\* The variant the priority chain of the specification selects for e, "none"
\* where it ends fatally.
Chosen(e) ==
    IF e.platform = "windows" THEN {"Windows"}
    ELSE IF e.platform = "macos" THEN {"PbCopy"}
    ELSE IF e.wsl THEN {"Wsl"}
    ELSE IF e.WAYLAND_DISPLAY /\ "wl-copy" \in e.path THEN {"Wayland"}
    ELSE IF "xclip" \in e.path \/ "xsel" \in e.path THEN {"XClip", "XSel"}
    ELSE IF "klipper" \in e.path /\ "qdbus" \in e.path THEN {"Klipper"}
    ELSE {"none"}

\* C3: the resolver selects the highest-priority class whose condition holds
\* (native, WSL bridge, Wayland, an X11 tool, desktop IPC, else fatal), stated
\* for the hosts that pass the display check of the specification.
C3_PriorityChain ==
    (Resolved /\ (Native(env) \/ env.wsl \/ env.DISPLAY \/ env.WAYLAND_DISPLAY))
        => res.board \in Chosen(env)

\* Resolution reached the X11 step: not native, not WSL, DISPLAY set, Wayland
\* not selected.
AtX11Step(e) ==
    /\ ~Native(e)
    /\ ~e.wsl
    /\ e.DISPLAY
    /\ ~(e.WAYLAND_DISPLAY /\ "wl-copy" \in e.path)

\* C4: at the X11 step xclip is selected whenever it is on the path, and xsel
\* only when xclip is absent.
C4_XClipFirst ==
    (Resolved /\ AtX11Step(env)) =>
        /\ "xclip" \in env.path => res.board = "XClip"
        /\ res.board = "XSel" => "xclip" \notin env.path

\* C5: off native platforms and WSL the display check is fatal exactly when
\* neither WAYLAND_DISPLAY nor DISPLAY is set; with WAYLAND_DISPLAY alone and
\* wl-copy on the path the Wayland variant is selected.
C5_DisplayCheck ==
    (Resolved /\ ~Native(env) /\ ~env.wsl) =>
        /\ (res.fatal /\ res.probes = <<>>)
              <=> (~env.DISPLAY /\ ~env.WAYLAND_DISPLAY)
        /\ (env.WAYLAND_DISPLAY /\ ~env.DISPLAY /\ "wl-copy" \in env.path)
              => res.board = "Wayland"

----------------------------------------------------------------------------
(* Properties of the backend variants, checked under SpecBackend *)

\* C6: for every variant, paste() after copy(s) of a non-empty s returns s,
\* the tools running and behaving as documented.
C6_RoundTrip ==
    (/\ copied.done /\ copied.text # <<>> /\ copied.exit = "ok"
     /\ ~copied.inv.fatal
     /\ pasted.done /\ pasted.launched)
        => (~pasted.out.fatal /\ pasted.out.ret = copied.text)

HasArg(argv, a) == \E i \in 1..Len(argv) : argv[i] = a

\* C8: Wayland copy("") runs wl-copy in its clear mode with nothing piped and
\* is fatal whenever that run does not exit with success; copy of a non-empty
\* text pipes exactly that text and does not use the clear mode.
C8_WaylandClear ==
    (variant = "Wayland" /\ copied.done) =>
        IF copied.text = <<>>
          THEN /\ copied.inv.mode = "status"
               /\ HasArg(copied.inv.argv, "--clear")
               /\ copied.inv.stdin = <<>>
               /\ copied.inv.fatal <=> (copied.exit # "ok")
          ELSE /\ copied.inv.mode = "put"
               /\ ~HasArg(copied.inv.argv, "--clear")
               /\ copied.inv.stdin = copied.text

C8_Witness ==
    /\ variant = "Wayland"
    /\ copied.done
    /\ copied.text = <<>>
    /\ copied.exit = "fail"
    /\ copied.inv.fatal
    /\ copied.inv.mode = "status"

----------------------------------------------------------------------------
(* Properties of paste() on any tool output, checked under SpecPaste *)

\* C9: Klipper paste returns the raw output less exactly its one final
\* newline when the output ends with a newline, and is fatal, returning
\* nothing, when it does not (the empty output included).
C9_KlipperStrip ==
    (variant = "Klipper" /\ pasted.done) =>
        IF EndsWith(pasted.raw, "LF")
          THEN ~pasted.out.fatal /\ pasted.out.ret \o <<"LF">> = pasted.raw
          ELSE pasted.out.fatal /\ pasted.out.ret = <<>>

\* Of two trailing newlines the first is kept.
C9_Witness ==
    /\ variant = "Klipper"
    /\ pasted.done
    /\ pasted.raw = <<"LF", "LF">>
    /\ ~pasted.out.fatal
    /\ pasted.out.ret = <<"LF">>

\* r without its trailing carriage return + line feed, r itself where it has none.
StripCrLf(r) ==
    IF Len(r) >= 2 /\ r[Len(r) - 1] = "CR" /\ r[Len(r)] = "LF"
      THEN SubSeq(r, 1, Len(r) - 2)
      ELSE r

\* C10: Wsl paste returns, for every raw output, the output less exactly its
\* trailing carriage return + line feed with no other byte dropped, and
\* r.len() - 2 never goes below zero.
C10_WslStrip ==
    (variant = "Wsl" /\ pasted.done) =>
        /\ ~pasted.out.underflow
        /\ ~pasted.out.fatal
        /\ pasted.out.ret = StripCrLf(pasted.raw)

====
